---- MODULE Spec2Model ----
(***************************************************************************)
(* Cosmic Radiation Research Dashboard (src/app.py): the "Biological       *)
(* Effects Visualizer" tab.  The script is re-run from its first line on   *)
(* every widget change; what survives a run is the widgets' session state. *)
(*                                                                         *)
(* Python floats are IEEE-754 binary64.  TLC's integers are 32 bits wide,  *)
(* so a binary64 value is kept as [m, e] (value = m * 2^e) whose 53-bit    *)
(* significand m is a little-endian sequence of 14-bit limbs, and the      *)
(* product of two floats is rounded to nearest, ties to even, as the       *)
(* hardware does.  A float carries its sign in neg; every value here is    *)
(* finite and far from the subnormal range.                                *)
(***************************************************************************)
EXTENDS Integers, Sequences, FiniteSets, TLC

----------------------------------------------------------------------------
(* Natural numbers of any size: little-endian limbs, no high zero limb.    *)

LimbBits == 14
Base == 2^LimbBits
SigBits == 53

RECURSIVE Carry(_, _)
Carry(s, c) ==
    IF s = <<>>
    THEN IF c = 0 THEN <<>> ELSE <<c % Base>> \o Carry(<<>>, c \div Base)
    ELSE LET t == Head(s) + c IN <<t % Base>> \o Carry(Tail(s), t \div Base)

RECURSIVE Trim(_)
Trim(s) ==
    IF s = <<>> THEN <<>>
    ELSE IF s[Len(s)] = 0 THEN Trim(SubSeq(s, 1, Len(s) - 1)) ELSE s

ToBig(n) == Carry(<<n>>, 0)

RECURSIVE ToInt(_)
ToInt(a) == IF a = <<>> THEN 0 ELSE Head(a) + Base * ToInt(Tail(a))

RECURSIVE SmallBitLen(_)
SmallBitLen(n) == IF n = 0 THEN 0 ELSE 1 + SmallBitLen(n \div 2)

BitLen(a) ==
    IF a = <<>> THEN 0 ELSE (Len(a) - 1) * LimbBits + SmallBitLen(a[Len(a)])

RECURSIVE Convolve(_, _, _, _)
Convolve(a, b, k, i) ==
    IF i > Len(a) \/ i > k THEN 0
    ELSE (IF k + 1 - i <= Len(b) THEN a[i] * b[k + 1 - i] ELSE 0)
         + Convolve(a, b, k, i + 1)

BigMul(a, b) ==
    IF a = <<>> \/ b = <<>> THEN <<>>
    ELSE Trim(Carry([k \in 1..(Len(a) + Len(b) - 1) |-> Convolve(a, b, k, 1)], 0))

BigShiftLeft(a, s) ==
    [i \in 1..(s \div LimbBits) |-> 0]
        \o Trim(Carry([i \in 1..Len(a) |-> a[i] * 2^(s % LimbBits)], 0))

BigBit(a, i) ==
    IF i \div LimbBits + 1 > Len(a) THEN 0
    ELSE (a[i \div LimbBits + 1] \div 2^(i % LimbBits)) % 2

\* some bit of a below position n is set
BigSticky(a, n) ==
    \/ \E i \in 1..Len(a) : i <= n \div LimbBits /\ a[i] # 0
    \/ /\ n \div LimbBits + 1 <= Len(a)
       /\ a[n \div LimbBits + 1] % 2^(n % LimbBits) # 0

BigShiftRight(a, s) ==
    LET k == s \div LimbBits
        j == s % LimbBits
        limb(i) == IF i <= Len(a) THEN a[i] ELSE 0
    IN  IF k >= Len(a) THEN <<>>
        ELSE Trim([i \in 1..(Len(a) - k) |->
                    limb(i + k) \div 2^j + (limb(i + k + 1) % 2^j) * 2^(LimbBits - j)])

\* a / 2^s rounded to the nearest integer, a tie to the even one
BigShiftRightRNE(a, s) ==
    IF s = 0 THEN a
    ELSE LET q == BigShiftRight(a, s)
             up == /\ BigBit(a, s - 1) = 1
                   /\ (BigSticky(a, s - 1) \/ BigBit(q, 0) = 1)
         IN  IF up THEN (IF q = <<>> THEN <<1>> ELSE Carry(<<q[1] + 1>> \o Tail(q), 0))
             ELSE q

RECURSIVE BigLess(_, _)
BigLess(a, b) ==
    IF Len(a) # Len(b) THEN Len(a) < Len(b)
    ELSE IF a = <<>> THEN FALSE
    ELSE IF a[Len(a)] # b[Len(b)] THEN a[Len(a)] < b[Len(b)]
    ELSE BigLess(SubSeq(a, 1, Len(a) - 1), SubSeq(b, 1, Len(b) - 1))

\* <<quotient, remainder>> of a by a small positive d, from the high limb down
RECURSIVE BigDivSmall(_, _)
BigDivSmall(a, d) ==
    IF a = <<>> THEN <<(<<>>), 0>>
    ELSE LET hi == BigDivSmall(Tail(a), d)
             t == hi[2] * Base + Head(a)
         IN  <<Trim(<<t \div d>> \o hi[1]), t % d>>

----------------------------------------------------------------------------
(* binary64                                                                *)

FZero == [neg |-> FALSE, m |-> <<>>, e |-> 0]

\* a significand of at most SigBits + 1 bits brought back to SigBits bits
Normal(neg, m, e) ==
    IF m = <<>> THEN [neg |-> neg, m |-> <<>>, e |-> 0]
    ELSE IF BitLen(m) > SigBits
         THEN [neg |-> neg, m |-> BigShiftRight(m, 1), e |-> e + 1]
    ELSE [neg |-> neg, m |-> m, e |-> e]

\* float(n) of a Python int -2^31 < n < 2^31: exact
FromInt(n) ==
    LET a == IF n < 0 THEN 0 - n ELSE n
    IN  IF n = 0 THEN FZero
        ELSE [neg |-> n < 0,
              m |-> BigShiftLeft(ToBig(a), SigBits - SmallBitLen(a)),
              e |-> SmallBitLen(a) - SigBits]

\* the float a decimal literal num/den denotes: the nearest binary64
FLit(num, den) ==
    LET k0 == SigBits - 1 + SmallBitLen(den) - SmallBitLen(num)
        q0 == BigDivSmall(BigShiftLeft(ToBig(num), k0), den)
        k == IF BitLen(q0[1]) = SigBits THEN k0 ELSE k0 + 1
        qr == IF k = k0 THEN q0 ELSE BigDivSmall(BigShiftLeft(ToBig(num), k), den)
        q == qr[1]
        up == 2 * qr[2] > den \/ (2 * qr[2] = den /\ BigBit(q, 0) = 1)
        m == IF up THEN Carry(<<q[1] + 1>> \o Tail(q), 0) ELSE q
    IN  Normal(FALSE, m, 0 - k)

\* x * y of two floats
FMul(x, y) ==
    IF x.m = <<>> \/ y.m = <<>> THEN Normal(x.neg # y.neg, <<>>, 0)
    ELSE LET p == BigMul(x.m, y.m)
             s == BitLen(p) - SigBits
         IN  Normal(x.neg # y.neg, BigShiftRightRNE(p, s), x.e + y.e + s)

\* |x| < |y|
MagLess(x, y) ==
    IF y.m = <<>> THEN FALSE
    ELSE IF x.m = <<>> THEN TRUE
    ELSE IF x.e # y.e THEN x.e < y.e
    ELSE BigLess(x.m, y.m)

\* x < y (-0.0 and 0.0 are equal)
FLess(x, y) ==
    IF x.m = <<>> /\ y.m = <<>> THEN FALSE
    ELSE IF x.neg # y.neg THEN x.neg
    ELSE IF x.neg THEN MagLess(y, x)
    ELSE MagLess(x, y)

\* f"{x:.2f}" as the number of hundredths it prints (308.00 is 30800, -1.54 is
\* -154): the nearest hundredth, a tie to the even one
Format2f(x) ==
    IF x.m = <<>> THEN 0
    ELSE LET c == BigMul(x.m, ToBig(100))
             h == ToInt(IF x.e >= 0 THEN BigShiftLeft(c, x.e)
                        ELSE BigShiftRightRNE(c, 0 - x.e))
         IN  IF x.neg THEN 0 - h ELSE h

----------------------------------------------------------------------------
(* State.                                                                  *)

VARIABLES
    widget_identity,  \* how the installed Streamlit identifies a keyed widget
    age_slider, age_input, gender, dose_slider, dose_input,  \* session state
    age, dose, age_modifier, gender_modifier,                \* the last run
    adjusted_dose, adjusted_text, effect, notes, fig,
    last_age, last_dose,  \* history: the widget of each pair the user changed last
    seen                  \* history: an earlier evaluation, kept for comparison

widgets == <<age_slider, age_input, gender, dose_slider, dose_input>>
run == <<age, dose, age_modifier, gender_modifier, adjusted_dose, adjusted_text,
         effect, notes, fig>>
vars == <<widget_identity, widgets, run, last_age, last_dose, seen>>

----------------------------------------------------------------------------
(* The script's literals.                                                  *)

F1_4 == FLit(14, 10)
F1_2 == FLit(12, 10)
F1_0 == FLit(10, 10)
F0_9 == FLit(9, 10)
F1_1 == FLit(11, 10)

Options == {"Male", "Female", "Prefer not to say"}

AGE_MIN == 0
AGE_MAX == 100
AGE_DEFAULT == 30
DOSE_MIN == 0
DOSE_MAX == 10000
DOSE_DEFAULT == 200

NoEffects == "No observable effects. Normal background exposure level."
Minor == "Minor biological impact. Slight increase in cancer risk."
PossibleARS == "Possible nausea, vomiting. Risk of Acute Radiation Syndrome (ARS)."
SevereARS == "Severe ARS symptoms. Temporary sterility possible."
LifeThreatening == "Life-threatening dose. Intensive treatment required."
Fatal == "Fatal in most cases. Survival unlikely without immediate medical care."

\* the advisory calls, by kind of call and the note's subject
NoteUnder10 == [call |-> "warning", about |-> "Children under 10"]
NoteUnder20 == [call |-> "info", about |-> "Younger individuals (under 20)"]
NoteOlder == [call |-> "info", about |-> "For older adults"]
NoteFemale == [call |-> "info", about |-> "Females"]
NoteMale == [call |-> "info", about |-> "Males"]
NoteGeneric == [call |-> "info", about |-> "Individual biological responses"]

thresholds == <<0, 100, 500, 1000, 3000, 6000, 10000>>
labels == <<"No Effects", "Minor Risk", "Mild ARS", "Severe ARS", "Lethal", "Extreme", "Fatal">>
colors == <<"#2ecc71", "#f1c40f", "#f39c12", "#e67e22", "#e74c3c", "#c0392b">>
xaxis_range == <<0, 10000>>

----------------------------------------------------------------------------
(* One run of the script, from the widget values down to the chart.        *)

\* "# Sync values": the value the evaluation uses, of a slider and its number input
SyncValue(slider, input) == IF slider # input THEN input ELSE slider

AgeModifierOlderFrom60(a) ==
    IF a < 10 THEN F1_4
    ELSE IF a < 20 THEN F1_2
    ELSE IF a >= 60 THEN F0_9
    ELSE F1_0

AgeModifier(a) ==
    IF a < 10 THEN F1_4
    ELSE IF a < 20 THEN F1_2
    ELSE IF a > 60 THEN F0_9
    ELSE F1_0

AgeNotes(a) ==
    IF a < 10 THEN <<NoteUnder10>>
    ELSE IF a < 20 THEN <<NoteUnder20>>
    ELSE IF a > 60 THEN <<NoteOlder>>
    ELSE <<>>

GenderModifierElseFemale(g) == IF g = "Male" THEN F1_0 ELSE F1_1

\* the modifier of the run before survives when neither branch assigns it
GenderModifierKept(g) ==
    IF g = "Female" THEN F1_1
    ELSE IF g = "Male" THEN F1_0
    ELSE gender_modifier

GenderModifier(g) ==
    IF g = "Female" THEN F1_1
    ELSE IF g = "Male" THEN F1_0
    ELSE F1_0

GenderNotes(g) ==
    IF g = "Female" THEN <<NoteFemale>>
    ELSE IF g = "Male" THEN <<NoteMale>>
    ELSE <<NoteGeneric>>

NotesGenderFirst(a, g) == GenderNotes(g) \o AgeNotes(a)

\* the st.warning / st.info advisories of one run, in the order of the calls
Notes(a, g) == AgeNotes(a) \o GenderNotes(g)

AdjustedDoseNoGender(d, am, gm) == FMul(FromInt(d), am)

\* the dose brought into the dose widgets' range first
AdjustedDoseClamped(d, am, gm) ==
    FMul(FMul(FromInt(IF d < DOSE_MIN THEN DOSE_MIN
                      ELSE IF d > DOSE_MAX THEN DOSE_MAX ELSE d), am), gm)

\* dose * age_modifier * gender_modifier, left to right
AdjustedDose(d, am, gm) == FMul(FMul(FromInt(d), am), gm)

EffectClosedRight(x) ==
    IF ~FLess(FromInt(100), x) THEN NoEffects
    ELSE IF ~FLess(FromInt(500), x) THEN Minor
    ELSE IF ~FLess(FromInt(1000), x) THEN PossibleARS
    ELSE IF ~FLess(FromInt(3000), x) THEN SevereARS
    ELSE IF ~FLess(FromInt(6000), x) THEN LifeThreatening
    ELSE Fatal

EffectSwapped(x) ==
    IF FLess(x, FromInt(100)) THEN NoEffects
    ELSE IF FLess(x, FromInt(500)) THEN Minor
    ELSE IF FLess(x, FromInt(1000)) THEN PossibleARS
    ELSE IF FLess(x, FromInt(3000)) THEN LifeThreatening
    ELSE IF FLess(x, FromInt(6000)) THEN SevereARS
    ELSE Fatal

Effect(x) ==
    IF FLess(x, FromInt(100)) THEN NoEffects
    ELSE IF FLess(x, FromInt(500)) THEN Minor
    ELSE IF FLess(x, FromInt(1000)) THEN PossibleARS
    ELSE IF FLess(x, FromInt(3000)) THEN SevereARS
    ELSE IF FLess(x, FromInt(6000)) THEN LifeThreatening
    ELSE Fatal

\* seq[i] of a Python list, i counted from 0 (out of range is an IndexError)
Item(seq, i) == seq[i + 1]

\* range(len(thresholds) - 1)
BandRange == 0..(Len(thresholds) - 2)

Shape(i) == [x0 |-> Item(thresholds, i), x1 |-> Item(thresholds, i + 1),
             fillcolor |-> Item(colors, i)]

\* x is x_twice / 2
Annotation(i) == [x_twice |-> Item(thresholds, i) + Item(thresholds, i + 1),
                  text |-> Item(labels, i)]

\* the rectangles and annotations the band loop adds: the same on every run
Shapes == [i \in 1..Cardinality(BandRange) |-> Shape(i - 1)]
Annotations == [i \in 1..Cardinality(BandRange) |-> Annotation(i - 1)]

\* the two marker traces and the x axis of the figure
Figure(d, x) == [original |-> d, adjusted |-> x, range |-> xaxis_range]

----------------------------------------------------------------------------------------------------------------------------------------------
(* The dashboard: widgets, user actions, re-runs.                           *)

\* Ages and doses the user tries in the dashboard; two of each are out of range
UIAges == {AGE_MIN - 1, 5, AGE_DEFAULT, 65, AGE_MAX + 1}
UIDoses == {DOSE_MIN - 1, DOSE_DEFAULT, 5000, DOSE_MAX, DOSE_MAX + 1}

\* a slider or number input with min_value and max_value takes no value outside them
Accepts(min_value, max_value, v) == v >= min_value /\ v <= max_value

\* st.number_input(value=default, key=...) on a re-run: Streamlit versions that
\* derive a widget's identity from all its parameters build a new widget, at its
\* default, when the default changed; versions that derive it from the key alone
\* keep the value in session state.
NumberInput(identity, old_default, default, state) ==
    IF identity = "parameters" /\ default # old_default THEN default ELSE state

\* the evaluation block, lines 65-121, and the chart, for the values d, a, g
Evaluate(d, a, g) ==
    /\ age' = a
    /\ dose' = d
    /\ age_modifier' = AgeModifier(a)
    /\ gender_modifier' = GenderModifier(g)
    /\ notes' = Notes(a, g)
    /\ adjusted_dose' = AdjustedDose(d, age_modifier', gender_modifier')
    /\ adjusted_text' = Format2f(adjusted_dose')
    /\ effect' = Effect(adjusted_dose')
    /\ fig' = Figure(d, adjusted_dose')

\* the script, top to bottom, on the session state the re-run finds
Script ==
    /\ Evaluate(SyncValue(dose_slider', dose_input'),
                SyncValue(age_slider', age_input'), gender')

Evaluation == [dose |-> dose, age |-> age, gender |-> gender,
               age_modifier |-> age_modifier, gender_modifier |-> gender_modifier,
               adjusted_dose |-> adjusted_dose, adjusted_text |-> adjusted_text,
               effect |-> effect, notes |-> notes]

\* history: a run has taken place since the evaluation was kept
Later(s) == IF s = <<>> THEN s ELSE <<[s[1] EXCEPT !.later = TRUE]>>

Init ==
    /\ widget_identity \in {"parameters", "key"}
    /\ age_slider = AGE_DEFAULT
    /\ age_input = age_slider
    /\ gender = "Male"
    /\ dose_slider = DOSE_DEFAULT
    /\ dose_input = dose_slider
    /\ age = SyncValue(age_slider, age_input)
    /\ dose = SyncValue(dose_slider, dose_input)
    /\ age_modifier = AgeModifier(age)
    /\ gender_modifier = GenderModifier(gender)
    /\ notes = Notes(age, gender)
    /\ adjusted_dose = AdjustedDose(dose, age_modifier, gender_modifier)
    /\ adjusted_text = Format2f(adjusted_dose)
    /\ effect = Effect(adjusted_dose)
    /\ fig = Figure(dose, adjusted_dose)
    /\ last_age = "none"
    /\ last_dose = "none"
    /\ seen = <<>>

SetAgeSlider(v) ==
    /\ Accepts(AGE_MIN, AGE_MAX, v)
    /\ v # age_slider
    /\ age_slider' = v
    /\ age_input' = NumberInput(widget_identity, age_slider, v, age_input)
    /\ UNCHANGED <<gender, dose_slider, dose_input>>
    /\ Script
    /\ last_age' = "slider"
    /\ seen' = Later(seen)
    /\ UNCHANGED <<widget_identity, last_dose>>

SetAgeInput(v) ==
    /\ Accepts(AGE_MIN, AGE_MAX, v)
    /\ v # age_input
    /\ age_input' = v
    /\ UNCHANGED <<age_slider, gender, dose_slider, dose_input>>
    /\ Script
    /\ last_age' = "input"
    /\ seen' = Later(seen)
    /\ UNCHANGED <<widget_identity, last_dose>>

SelectGender(g) ==
    /\ g # gender
    /\ gender' = g
    /\ UNCHANGED <<age_slider, age_input, dose_slider, dose_input>>
    /\ Script
    /\ seen' = Later(seen)
    /\ UNCHANGED <<widget_identity, last_age, last_dose>>

SetDoseSlider(v) ==
    /\ Accepts(DOSE_MIN, DOSE_MAX, v)
    /\ v # dose_slider
    /\ dose_slider' = v
    /\ dose_input' = NumberInput(widget_identity, dose_slider, v, dose_input)
    /\ UNCHANGED <<age_slider, age_input, gender>>
    /\ Script
    /\ last_dose' = "slider"
    /\ seen' = Later(seen)
    /\ UNCHANGED <<widget_identity, last_age>>

SetDoseInput(v) ==
    /\ Accepts(DOSE_MIN, DOSE_MAX, v)
    /\ v # dose_input
    /\ dose_input' = v
    /\ UNCHANGED <<age_slider, dose_slider, age_input, gender>>
    /\ Script
    /\ last_dose' = "input"
    /\ seen' = Later(seen)
    /\ UNCHANGED <<widget_identity, last_age>>

\* history only: keep the evaluation on screen for later comparison
Remember ==
    /\ seen # <<[eval |-> Evaluation, later |-> FALSE]>>
    /\ seen' = <<[eval |-> Evaluation, later |-> FALSE]>>
    /\ UNCHANGED <<widget_identity, widgets, run, last_age, last_dose>>

Next ==
    \/ \E v \in UIAges : SetAgeSlider(v)
    \/ \E v \in UIAges : SetAgeInput(v)
    \/ \E g \in Options : SelectGender(g)
    \/ \E v \in UIDoses : SetDoseSlider(v)
    \/ \E v \in UIDoses : SetDoseInput(v)
    \/ Remember

Spec == Init /\ [][Next]_vars

----------------------------------------------------------------------------
(* The evaluation block on its own: a caller supplies dose, age and gender *)
(* (the gender any string), one value changing at a time.                  *)

DoseWindow == 1
AgeWindow == 1

Near(x, marks, w) == \E c \in marks : x - c <= w /\ c - x <= w

\* doses around the band edges, and the doses of the spec's scenarios
EvalDoses ==
    {d \in DOSE_MIN..DOSE_MAX :
        Near(d, {DOSE_MIN, 100, 500, 1000, 3000, 6000, DOSE_MAX}, DoseWindow)}
    \cup {64, 65, DOSE_DEFAULT, 2500, 5000}

\* ages around the rule edges, and the ages of the spec's scenarios
EvalAges ==
    {a \in AGE_MIN..AGE_MAX : Near(a, {AGE_MIN, 10, 20, 60, AGE_MAX}, AgeWindow)}
    \cup {5, 8, AGE_DEFAULT, 65}

EvalGenders == Options \cup {"Undisclosed", "female", ""}

EvalInit == Init /\ widget_identity = "key"

EvalDose(d) ==
    /\ d # dose
    /\ Evaluate(d, age, gender)
    /\ UNCHANGED <<widget_identity, widgets, last_age, last_dose, seen>>

EvalAge(a) ==
    /\ a # age
    /\ Evaluate(dose, a, gender)
    /\ UNCHANGED <<widget_identity, widgets, last_age, last_dose, seen>>

EvalGender(g) ==
    /\ g # gender
    /\ gender' = g
    /\ Evaluate(dose, age, g)
    /\ UNCHANGED <<widget_identity, age_slider, age_input, dose_slider, dose_input,
                   last_age, last_dose, seen>>

EvalNext ==
    \/ \E d \in EvalDoses : EvalDose(d)
    \/ \E a \in EvalAges : EvalAge(a)
    \/ \E g \in EvalGenders : EvalGender(g)

SpecEval == EvalInit /\ [][EvalNext]_vars

----------------------------------------------------------------------------
(* The evaluation block given values the widgets would not let through: a  *)
(* dose or an age up to Overshoot outside the widgets' range.              *)

Overshoot == 2

RawDoses ==
    ((DOSE_MIN - Overshoot)..(DOSE_MIN + Overshoot))
    \cup ((DOSE_MAX - Overshoot)..(DOSE_MAX + Overshoot))
    \cup {DOSE_DEFAULT, 5000}

RawAges ==
    ((AGE_MIN - Overshoot)..(AGE_MIN + Overshoot))
    \cup ((AGE_MAX - Overshoot)..(AGE_MAX + Overshoot))
    \cup {5, 15, AGE_DEFAULT, 65}

RawNext ==
    \/ \E d \in RawDoses : EvalDose(d)
    \/ \E a \in RawAges : EvalAge(a)
    \/ \E g \in Options : EvalGender(g)

SpecRaw == EvalInit /\ [][RawNext]_vars

----------------------------------------------------------------------------
(* What the specification says, in its own terms.                          *)

Severity == <<NoEffects, Minor, PossibleARS, SevereARS, LifeThreatening, Fatal>>
Rank(l) == CHOOSE i \in 1..Len(Severity) : Severity[i] = l
BandEdges == {100, 500, 1000, 3000, 6000}

\* the number of band edges at or below x
EdgesReached(x) == Cardinality({t \in BandEdges : ~FLess(x, FromInt(t))})

\* the modifiers of the spec's tables, in tenths
AgeTenths(a) == IF a < 10 THEN 14 ELSE IF a < 20 THEN 12 ELSE IF a <= 60 THEN 10 ELSE 9
GenderTenths(g) == IF g = "Female" THEN 11 ELSE 10

\* the real product dose * ageModifier * genderModifier, in hundredths
ExactHundredths == dose * AgeTenths(age) * GenderTenths(gender)

\* the float x is exactly c / 100
IsHundredths(x, c) ==
    IF x.m = <<>> THEN c = 0
    ELSE /\ x.neg = (c < 0)
         /\ x.e <= 0
         /\ BigMul(x.m, ToBig(100))
                = BigShiftLeft(ToBig(IF c < 0 THEN 0 - c ELSE c), 0 - x.e)

AgeRules == {[lo |-> AGE_MIN, hi |-> 9, modifier |-> F1_4],
             [lo |-> 10, hi |-> 19, modifier |-> F1_2],
             [lo |-> 20, hi |-> 60, modifier |-> F1_0],
             [lo |-> 61, hi |-> AGE_MAX, modifier |-> F0_9]}

Clamp(v, lo, hi) == IF v < lo THEN lo ELSE IF v > hi THEN hi ELSE v

\* the largest adjusted dose of a dose and an age in the widgets' ranges
MaxAdjusted == AdjustedDose(DOSE_MAX, F1_4, F1_1)

SameInputs(e) == e.dose = dose /\ e.age = age /\ e.gender = gender

----------------------------------------------------------------------------
(* Claims.                                                                 *)

\* C1, as stated: for every dose, age and gender the adjusted dose is exactly the
\* real product dose * ageModifier(age) * genderModifier(gender); in particular
\* (10000, 5, Female) gives 15400.
C1_ExactProduct ==
    /\ IsHundredths(adjusted_dose, ExactHundredths)
    /\ (dose = 10000 /\ age = 5 /\ gender = "Female") => adjusted_dose = FromInt(15400)

\* C1, amended: the adjusted dose is the binary64 product, which prints to two
\* decimals as the real product does; it is exact when both modifiers are 1.0 and
\* in the scenarios (200, 30, Male) = 200, (200, 8, Female) = 308 and
\* (5000, 65, Male) = 4500, while (10000, 5, Female) gives a float just above
\* 15400 that prints as 15400.00.
C1_RoundedProduct ==
    /\ adjusted_text = ExactHundredths
    /\ (AgeTenths(age) = 10 /\ GenderTenths(gender) = 10) => adjusted_dose = FromInt(dose)
    /\ (dose = 200 /\ age = 30 /\ gender = "Male") => adjusted_dose = FromInt(200)
    /\ (dose = 200 /\ age = 8 /\ gender = "Female") => adjusted_dose = FromInt(308)
    /\ (dose = 5000 /\ age = 65 /\ gender = "Male") => adjusted_dose = FromInt(4500)
    /\ (dose = 10000 /\ age = 5 /\ gender = "Female") =>
            /\ FLess(FromInt(15400), adjusted_dose)
            /\ adjusted_text = 1540000

C1_Witness ==
    /\ dose = 10000 /\ age = 5 /\ gender = "Female"
    /\ adjusted_dose # FromInt(15400)
    /\ adjusted_text = 1540000

\* C2: the effect label is the band of the adjusted dose, bands closed on the left:
\* its severity rank is the number of edges 100, 500, 1000, 3000, 6000 at or below
\* the adjusted dose, so a dose on an edge takes the higher band's label and a dose
\* below it the lower band's.
C2_LeftClosedBands ==
    /\ effect \in {Severity[i] : i \in 1..Len(Severity)}
    /\ effect = Severity[EdgesReached(adjusted_dose) + 1]

C2_Witness ==
    /\ dose = 2500 /\ age = 19
    /\ adjusted_dose = FromInt(3000)
    /\ effect = LifeThreatening

\* C3: the age modifier is 1.4 below 10, 1.2 from 10 to 19, 1.0 from 20 to 60 and
\* 0.9 above 60; every age from 0 to 100 matches exactly one of these rules.
C3_AgeRules ==
    /\ Cardinality({r \in AgeRules : r.lo <= age /\ age <= r.hi}) = 1
    /\ \A r \in AgeRules : (r.lo <= age /\ age <= r.hi) => age_modifier = r.modifier
    /\ age = 10 => age_modifier = F1_2
    /\ age = 20 => age_modifier = F1_0
    /\ age = 60 => age_modifier = F1_0
    /\ age = 61 => age_modifier = F0_9

C3_Witness == age = 60 /\ age_modifier = F1_0 /\ notes = <<NoteMale>>

\* C4: the gender modifier is 1.1 for Female and 1.0 for Male; any other string
\* takes the last branch: modifier 1.0, the generic advisory, and a result as for
\* any other input.
C4_GenderRules ==
    /\ gender = "Female" => gender_modifier = F1_1
    /\ gender = "Male" => gender_modifier = F1_0
    /\ gender \notin {"Male", "Female"} =>
            /\ gender_modifier = F1_0
            /\ notes[Len(notes)] = NoteGeneric
            /\ adjusted_dose = AdjustedDose(dose, age_modifier, F1_0)
            /\ effect = Severity[EdgesReached(adjusted_dose) + 1]

C4_Witness ==
    /\ gender = "female"
    /\ gender_modifier = F1_0
    /\ notes[Len(notes)] = NoteGeneric

\* C5: when the dose grows and age and gender stay, neither the adjusted dose nor
\* the severity rank of the effect label decreases.
C5_Monotone ==
    [][(age' = age /\ gender' = gender /\ dose <= dose') =>
            /\ ~FLess(adjusted_dose', adjusted_dose)
            /\ Rank(effect) <= Rank(effect')]_vars

C5_Witness == dose = DOSE_MAX /\ age = 65 /\ gender = "Male" /\ effect = Fatal

\* C6, as stated: the evaluation treats an age outside [0,100] and a dose outside
\* [0,10000] as the nearest bound before it computes the modifiers and the
\* adjusted dose, so the adjusted dose is never negative and never exceeds
\* 10000 * 1.4 * 1.1 (taken here as the float product and as printed, 15400.00, so
\* that the rounding of C1 plays no part).
C6_ClampsInputs ==
    /\ adjusted_text = Clamp(dose, DOSE_MIN, DOSE_MAX)
                        * AgeTenths(Clamp(age, AGE_MIN, AGE_MAX)) * GenderTenths(gender)
    /\ ~FLess(adjusted_dose, FZero)
    /\ ~FLess(MaxAdjusted, adjusted_dose)
    /\ adjusted_text <= 1540000

\* C6, amended: the evaluation uses the dose as it arrives, without clamping: the
\* adjusted dose prints as dose * ageModifier * genderModifier of that dose, is
\* negative for a dose below 0 and above the result for dose 10000 for a dose
\* above 10000.  An age below 0 takes the under-10 rule and an age above 100 the
\* over-60 rule, as the nearest bound would.  For a dose within [0,10000] the
\* adjusted dose is not negative and at most the float 10000 * 1.4 * 1.1, which
\* prints as 15400.00.
C6_DoseUsedAsGiven ==
    /\ adjusted_text = dose * AgeTenths(age) * GenderTenths(gender)
    /\ \A r \in AgeRules :
            (r.lo <= Clamp(age, AGE_MIN, AGE_MAX) /\ Clamp(age, AGE_MIN, AGE_MAX) <= r.hi)
                => age_modifier = r.modifier
    /\ dose < DOSE_MIN => FLess(adjusted_dose, FZero) /\ adjusted_text < 0
    /\ dose > DOSE_MAX =>
            FLess(AdjustedDose(DOSE_MAX, age_modifier, gender_modifier), adjusted_dose)
    /\ (dose >= DOSE_MIN /\ dose <= DOSE_MAX) =>
            /\ ~FLess(adjusted_dose, FZero)
            /\ ~FLess(MaxAdjusted, adjusted_dose)
            /\ adjusted_text >= 0 /\ adjusted_text <= 1540000

C6_Witness ==
    /\ dose = DOSE_MAX + 1 /\ age = AGE_MIN - 1 /\ gender = "Female"
    /\ age_modifier = F1_4
    /\ FLess(MaxAdjusted, adjusted_dose)
    /\ adjusted_text = 1540154

\* C7: an evaluation with the dose, age and gender of an earlier one gives the same
\* modifiers, adjusted dose, printed dose, effect label and advisories, whatever
\* ran in between.
C7_Deterministic ==
    (seen # <<>> /\ SameInputs(seen[1].eval)) => seen[1].eval = Evaluation

C7_Witness ==
    /\ seen # <<>> /\ seen[1].later
    /\ SameInputs(seen[1].eval)
    /\ gender = "Prefer not to say"
    /\ age_slider # age_input

\* C8: the advisories of a run are the age advisory, if any, then one gender
\* advisory: under-10 iff age < 10, under-20 iff 10 <= age < 20, older-adult iff
\* age > 60, none iff 20 <= age <= 60; so one or two notes.
C8_Advisories ==
    LET n == Len(notes)
    IN  /\ n \in {1, 2}
        /\ notes[n] = (IF gender = "Female" THEN NoteFemale
                       ELSE IF gender = "Male" THEN NoteMale ELSE NoteGeneric)
        /\ (age < 10) <=> (n = 2 /\ notes[1] = NoteUnder10)
        /\ (age >= 10 /\ age < 20) <=> (n = 2 /\ notes[1] = NoteUnder20)
        /\ (age > 60) <=> (n = 2 /\ notes[1] = NoteOlder)
        /\ (age >= 20 /\ age <= 60) <=> (n = 1)

C8_Witness == age = 61 /\ gender = "Female" /\ notes = <<NoteOlder, NoteFemale>>

\* C9: the age (dose) the evaluation uses is the value of whichever of the slider
\* and the number input the user changed last.
C9_LastChangedWins ==
    /\ last_age = "slider" => age = age_slider
    /\ last_age = "input" => age = age_input
    /\ last_dose = "slider" => dose = dose_slider
    /\ last_dose = "input" => dose = dose_input

\* C10: the chart's band edges are the classification's, the band loop indexes
\* thresholds, colors and labels within their lengths, both markers lie in the
\* x range, and the adjusted marker lies in the band of the effect label's rank.
C10_ChartConsistent ==
    /\ {Shapes[i].x0 : i \in 1..Len(Shapes)} = {0} \cup BandEdges
    /\ \A i \in BandRange :
            i + 1 < Len(thresholds) /\ i < Len(colors) /\ i < Len(labels)
    /\ fig.original >= fig.range[1] /\ fig.original <= fig.range[2]
    /\ ~FLess(fig.adjusted, FromInt(fig.range[1]))
    /\ ~FLess(FromInt(fig.range[2]), fig.adjusted)
    /\ ~FLess(fig.adjusted, FromInt(Shapes[Rank(effect)].x0))
    /\ ~FLess(FromInt(Shapes[Rank(effect)].x1), fig.adjusted)

====
